---- MODULE Spec2Model ----
(***************************************************************************)
(* wdydoc: the polymorphic document model, its JSON codec, the template    *)
(* project with its per-file transform dispatch, and the build             *)
(* orchestrator with its scratch-directory caches.                         *)
(*                                                                         *)
(* Three state machines share the pure operators of the module:            *)
(*   SpecCodec  builder operations on a Workspace, Marshal, Unmarshal      *)
(*   SpecFile   NewFile / File.Apply on the files of a template project    *)
(*   Spec       Build.AddRule / Build.Apply over a scratch directory       *)
(***************************************************************************)
EXTENDS Integers, Sequences, FiniteSets, TLC

(***************************************************************************)
(* Bounds                                                                  *)
(***************************************************************************)
MaxNodes == 2      \* nodes appended below the workspace by builder calls

(***************************************************************************)
(* util.go: the type discriminators                                        *)
(***************************************************************************)
typeAttrName == "type"
WorkspaceType == "workspace"
DocumentType == "document"
ChapterType == "chapter"
AuthorType == "author"
NewlineType == "newline"
NewpageType == "newpage"
ItalicType == "italic"
BoldType == "bold"
UnderlineType == "underline"
CodeType == "code"
ImageType == "image"
TOCType == "toc"
TitlepageType == "titlepage"
TextType == "text"

Registry ==
  { WorkspaceType, DocumentType, AuthorType, ChapterType, TextType, CodeType,
    ImageType, TOCType, NewlineType, NewpageType, ItalicType, BoldType,
    UnderlineType, TitlepageType }

MarkerTypes == { NewlineType, NewpageType, TOCType }
GroupTypes == { ItalicType, BoldType, UnderlineType, TitlepageType }

(***************************************************************************)
(* model.go: the node variants.  A node is a record carrying the value of  *)
(* Type() under "type" and the exported fields of its struct.  A nil and   *)
(* an empty slice are both the empty sequence.                             *)
(***************************************************************************)
Workspace(format, version, title, resources) ==
  [type |-> WorkspaceType, Format |-> format, Version |-> version,
   Title |-> title, Resources |-> resources]

Document(id, title, authors, body) ==
  [type |-> DocumentType, Id |-> id, Title |-> title, Authors |-> authors,
   Body |-> body]

Author(first, last, email) ==
  [type |-> AuthorType, Firstname |-> first, Lastname |-> last,
   EMail |-> email]

Chapter(title, level, body) ==
  [type |-> ChapterType, Title |-> title, Level |-> level, Body |-> body]

Span(value) == [type |-> TextType, Value |-> value]

Text(str) == Span(str)

Code(hint, lines) == [type |-> CodeType, Hint |-> hint, Lines |-> lines]

Image(src, width, height) ==
  [type |-> ImageType, Src |-> src, Width |-> width, Height |-> height]

defaultType(name) == [type |-> name]

defaultBody(name, body) == [type |-> name, Body |-> body]

Newpage == defaultType(NewpageType)
Newline == defaultType(NewlineType)
TOC == defaultType(TOCType)
Italic(body) == defaultBody(ItalicType, body)
Bold(body) == defaultBody(BoldType, body)
Underline(body) == defaultBody(UnderlineType, body)
TitlePage(body) == defaultBody(TitlepageType, body)

(***************************************************************************)
(* The outcome of a Go panic (a failed type assertion, or the default      *)
(* branch of fromJson): the decode is aborted and no tree is returned.     *)
(***************************************************************************)
PANIC == [type |-> "<panic>"]
IsPanic(n) == n.type = "<panic>"


(***************************************************************************)
(* Values of Go's interface{} as the codec sees them, tagged with their    *)
(* dynamic type.  The maps built by toJson hold int and []string values;   *)
(* the maps produced by encoding/json hold float64 and []interface{}.      *)
(***************************************************************************)
GoString(s) == [k |-> "string", s |-> s]
GoInt(i) == [k |-> "int", n |-> i]
GoFloat64(f) == [k |-> "float64", n |-> f]
GoStringSlice(l) == [k |-> "[]string", ss |-> l]
GoSlice(l) == [k |-> "[]interface{}", l |-> l]
GoMap(f) == [k |-> "map", m |-> f]
GoNil == [k |-> "nil"]

\* m[key] of a Go map: the nil interface when the key is absent
MapGet(m, key) == IF key \in DOMAIN m THEN m[key] ELSE GoNil

(***************************************************************************)
(* The serialized form: JSON text, by the kind of each JSON value.         *)
(***************************************************************************)
JString(s) == [j |-> "string", s |-> s]
JNumber(n) == [j |-> "number", n |-> n]
JArray(l) == [j |-> "array", a |-> l]
JObject(f) == [j |-> "object", o |-> f]
JNull == [j |-> "null"]

RECURSIVE jsonMarshal(_)
\* encoding/json.Marshal: a nil []string is written as null
jsonMarshal(g) ==
  CASE g.k = "string" -> JString(g.s)
    [] g.k = "int" -> JNumber(g.n)
    [] g.k = "float64" -> JNumber(g.n)
    [] g.k = "[]string" ->
         IF g.ss = <<>> THEN JNull
         ELSE JArray([i \in 1..Len(g.ss) |-> JString(g.ss[i])])
    [] g.k = "[]interface{}" ->
         JArray([i \in 1..Len(g.l) |-> jsonMarshal(g.l[i])])
    [] g.k = "map" -> JObject([x \in DOMAIN g.m |-> jsonMarshal(g.m[x])])
    [] OTHER -> JNull

RECURSIVE jsonUnmarshal(_)
\* encoding/json.Unmarshal into interface{}: numbers become float64,
\* arrays []interface{}, objects map[string]interface{}
jsonUnmarshal(t) ==
  CASE t.j = "string" -> GoString(t.s)
    [] t.j = "number" -> GoFloat64(t.n)
    [] t.j = "array" ->
         GoSlice([i \in 1..Len(t.a) |-> jsonUnmarshal(t.a[i])])
    [] t.j = "object" -> GoMap([x \in DOMAIN t.o |-> jsonUnmarshal(t.o[x])])
    [] OTHER -> GoNil

(***************************************************************************)
(* util.go: helpers of the codec                                           *)
(***************************************************************************)
optString(m, key) ==
  IF MapGet(m, key).k = "string" THEN m[key].s ELSE ""

optStringSlice(m, key) ==
  IF MapGet(m, key).k = "[]string" THEN m[key].ss ELSE <<>>

optInt(m, key) ==
  IF MapGet(m, key).k \in {"int", "int64", "float64"} THEN m[key].n ELSE 0

optSet(m, key, val) ==
  IF val = "" THEN [x \in (DOMAIN m) \ {key} |-> m[x]]
  ELSE (key :> GoString(val)) @@ m

\* variant of assertObjList that also skips objects of an unregistered type
assertObjListKnownOnly(v) ==
  IF v.k = "[]interface{}"
  THEN LET objs == SelectSeq(v.l, LAMBDA o :
                      /\ o.k = "map"
                      /\ MapGet(o.m, typeAttrName).k = "string"
                      /\ o.m[typeAttrName].s \in Registry)
       IN [i \in 1..Len(objs) |-> objs[i].m]
  ELSE <<>>

\* the elements of v that are JSON objects; anything else is skipped
assertObjList(v) ==
  IF v.k = "[]interface{}"
  THEN LET objs == SelectSeq(v.l, LAMBDA o : o.k = "map")
       IN [i \in 1..Len(objs) |-> objs[i].m]
  ELSE <<>>

(***************************************************************************)
(* Encoding: the toJson method of every variant and toJson on a slice.     *)
(***************************************************************************)
RECURSIVE NodeToJson(_)

toJson(slice) == GoSlice([i \in 1..Len(slice) |-> GoMap(NodeToJson(slice[i]))])

WorkspaceToJson(w) ==
  (typeAttrName :> GoString(w.type)) @@ ("title" :> GoString(w.Title))
    @@ ("version" :> GoString(w.Version)) @@ ("format" :> GoInt(w.Format))
    @@ ("resources" :> toJson(w.Resources))

DocumentToJson(c) ==
  ("body" :> toJson(c.Body)) @@ ("authors" :> toJson(c.Authors))
    @@ ("title" :> GoString(c.Title))
    @@ optSet((typeAttrName :> GoString(c.type)), "id", c.Id)

AuthorToJson(a) ==
  (typeAttrName :> GoString(a.type)) @@ ("firstname" :> GoString(a.Firstname))
    @@ ("lastname" :> GoString(a.Lastname)) @@ ("email" :> GoString(a.EMail))

ChapterToJson(c) ==
  (typeAttrName :> GoString(c.type)) @@ ("title" :> GoString(c.Title))
    @@ ("level" :> GoInt(c.Level)) @@ ("body" :> toJson(c.Body))

SpanToJson(t) ==
  (typeAttrName :> GoString(t.type)) @@ ("value" :> GoString(t.Value))

CodeToJson(c) ==
  (typeAttrName :> GoString(c.type)) @@ ("hint" :> GoString(c.Hint))
    @@ ("lines" :> GoStringSlice(c.Lines))

ImageToJson(c) ==
  (typeAttrName :> GoString(c.type)) @@ ("src" :> GoString(c.Src))
    @@ ("width" :> GoString(c.Width)) @@ ("height" :> GoString(c.Height))

defaultTypeToJson(d) == (typeAttrName :> GoString(d.type))

defaultBodyToJson(d) ==
  (typeAttrName :> GoString(d.type)) @@ ("body" :> toJson(d.Body))

\* the dynamic dispatch of item.(Discriminator).toJson()
NodeToJson(n) ==
  CASE n.type = WorkspaceType -> WorkspaceToJson(n)
    [] n.type = DocumentType -> DocumentToJson(n)
    [] n.type = AuthorType -> AuthorToJson(n)
    [] n.type = ChapterType -> ChapterToJson(n)
    [] n.type = TextType -> SpanToJson(n)
    [] n.type = CodeType -> CodeToJson(n)
    [] n.type = ImageType -> ImageToJson(n)
    [] n.type \in MarkerTypes -> defaultTypeToJson(n)
    [] n.type \in GroupTypes -> defaultBodyToJson(n)

(***************************************************************************)
(* Decoding: fromJson of util.go and the fromJson method of every variant. *)
(***************************************************************************)
RECURSIVE fromJson(_)

\* the loop `for _, obj := range assertObjList(v) { append(.., fromJson(obj)) }`
fromJsonEach(v) ==
  LET objs == assertObjList(v) IN [i \in 1..Len(objs) |-> fromJson(objs[i])]

AnyPanic(nodes) == \E i \in 1..Len(nodes) : IsPanic(nodes[i])

WorkspaceFromJson(m) ==
  IF MapGet(m, "title").k # "string" \/ MapGet(m, "version").k # "string"
  THEN PANIC
  ELSE LET res == fromJsonEach(MapGet(m, "resources"))
       IN IF AnyPanic(res) THEN PANIC
          ELSE Workspace(optInt(m, "format"), m["version"].s, m["title"].s, res)

DocumentFromJson(m) ==
  LET authors == fromJsonEach(MapGet(m, "authors"))
      body == fromJsonEach(MapGet(m, "body"))
  IN IF \/ AnyPanic(authors)
        \/ \E i \in 1..Len(authors) : authors[i].type # AuthorType
        \/ AnyPanic(body)
     THEN PANIC
     ELSE Document(optString(m, "id"), optString(m, "title"), authors, body)

AuthorFromJson(m) ==
  IF \/ MapGet(m, "firstname").k # "string"
     \/ MapGet(m, "lastname").k # "string"
     \/ MapGet(m, "email").k # "string"
  THEN PANIC
  ELSE Author(m["firstname"].s, m["lastname"].s, m["email"].s)

ChapterFromJson(m) ==
  LET body == fromJsonEach(MapGet(m, "body"))
  IN IF AnyPanic(body) THEN PANIC
     ELSE Chapter(optString(m, "title"), optInt(m, "level"), body)

SpanFromJson(m) == Span(optString(m, "value"))

CodeFromJson(m) == Code(optString(m, "hint"), optStringSlice(m, "lines"))

ImageFromJson(m) ==
  Image(optString(m, "src"), optString(m, "width"), optString(m, "height"))

defaultTypeFromJson(name, m) == defaultType(name)

\* variant of defaultBodyFromJson that decodes every group as an italic one
defaultBodyFromJsonItalic(name, m) ==
  LET body == fromJsonEach(MapGet(m, "body"))
  IN IF AnyPanic(body) THEN PANIC ELSE defaultBody(ItalicType, body)

defaultBodyFromJson(name, m) ==
  LET body == fromJsonEach(MapGet(m, "body"))
  IN IF AnyPanic(body) THEN PANIC ELSE defaultBody(name, body)

fromJson(m) ==
  LET typeName == optString(m, typeAttrName)
  IN CASE typeName = WorkspaceType -> WorkspaceFromJson(m)
       [] typeName = DocumentType -> DocumentFromJson(m)
       [] typeName = AuthorType -> AuthorFromJson(m)
       [] typeName = ChapterType -> ChapterFromJson(m)
       [] typeName = TextType -> SpanFromJson(m)
       [] typeName = TOCType -> defaultTypeFromJson(TOCType, m)
       [] typeName = NewlineType -> defaultTypeFromJson(NewlineType, m)
       [] typeName = ItalicType -> defaultBodyFromJson(ItalicType, m)
       [] typeName = BoldType -> defaultBodyFromJson(BoldType, m)
       [] typeName = UnderlineType -> defaultBodyFromJson(UnderlineType, m)
       [] typeName = CodeType -> CodeFromJson(m)
       [] typeName = ImageType -> ImageFromJson(m)
       [] typeName = TitlepageType -> defaultBodyFromJson(TitlepageType, m)
       [] typeName = NewpageType -> defaultTypeFromJson(NewpageType, m)
       [] OTHER -> PANIC

(***************************************************************************)
(* transformer.go: Marshal and Unmarshal of a whole workspace.             *)
(***************************************************************************)
Marshal(w) == jsonMarshal(GoMap(WorkspaceToJson(w)))

\* json.Unmarshal into a map fails on anything but a JSON object
UnmarshalError == [type |-> "<error>"]

Unmarshal(b) ==
  IF b.j # "object" THEN UnmarshalError
  ELSE WorkspaceFromJson(jsonUnmarshal(b).m)

(***************************************************************************)
(* model.go: Workspace.ById.  The pointer it returns is identified by the  *)
(* position of the resource in w.Resources; 0 is the nil result.           *)
(***************************************************************************)
\* variant of ById that keeps scanning and returns the last match
ByIdLast(w, id) ==
  LET hits == { i \in 1..Len(w.Resources) :
                  /\ w.Resources[i].type = DocumentType
                  /\ w.Resources[i].Id = id }
  IN IF hits = {} THEN 0 ELSE CHOOSE i \in hits : \A k \in hits : i >= k

ById(w, id) ==
  LET hits == { i \in 1..Len(w.Resources) :
                  /\ w.Resources[i].type = DocumentType
                  /\ w.Resources[i].Id = id }
  IN IF hits = {} THEN 0 ELSE CHOOSE i \in hits : \A k \in hits : i <= k

(***************************************************************************)
(* The tree of owned children: a node is addressed by the path of list     *)
(* positions leading to it from the workspace.                             *)
(***************************************************************************)
Kids(n) ==
  IF n.type = WorkspaceType THEN n.Resources
  ELSE IF n.type \in {DocumentType, ChapterType} \cup GroupTypes THEN n.Body
  ELSE <<>>

WithKids(n, kids) ==
  IF n.type = WorkspaceType THEN [n EXCEPT !.Resources = kids]
  ELSE [n EXCEPT !.Body = kids]

RECURSIVE Size(_)
Size(n) ==
  LET kids == Kids(n)
      RECURSIVE Sum(_)
      Sum(i) == IF i = 0 THEN 0 ELSE Size(kids[i]) + Sum(i - 1)
  IN 1 + Sum(Len(kids))
       + (IF n.type = DocumentType THEN Len(n.Authors) ELSE 0)

RECURSIVE PathsOf(_)
PathsOf(n) ==
  {<<>>} \cup UNION { { <<i>> \o p : p \in PathsOf(Kids(n)[i]) } :
                       i \in 1..Len(Kids(n)) }

RECURSIVE NodeAt(_, _)
NodeAt(n, p) == IF p = <<>> THEN n ELSE NodeAt(Kids(n)[Head(p)], Tail(p))

RECURSIVE ReplaceAt(_, _, _)
ReplaceAt(n, p, new) ==
  IF p = <<>> THEN new
  ELSE WithKids(n, [Kids(n) EXCEPT ![Head(p)] = ReplaceAt(@, Tail(p), new)])

(***************************************************************************)
(* model.go: the builder methods, as the new value of their receiver.      *)
(***************************************************************************)
WorkspaceNewDocument(w) ==
  [w EXCEPT !.Resources = Append(@, Document("", "", <<>>, <<>>))]

DocumentNewChapter(c, s) == [c EXCEPT !.Body = Append(@, Chapter(s, 0, <<>>))]

DocumentAdd(c, e) == [c EXCEPT !.Body = Append(@, e)]

ChapterAdd(c, e) == [c EXCEPT !.Body = Append(@, e)]

ChapterNewChapter(c, title) ==
  [c EXCEPT !.Body = Append(@, Chapter(title, c.Level + 1, <<>>))]

ChapterText(c, str) == ChapterAdd(c, Span(str))

(***************************************************************************)
(* A serialized workspace that did not come out of Marshal unchanged: an   *)
(* object spliced into one of the lists of discriminated objects.          *)
(***************************************************************************)
ListKeys == {"resources", "body", "authors"}

\* the lists of discriminated objects below the JSON object o
RECURSIVE ListsOf(_)
ListsOf(o) ==
  LET keys == { x \in (DOMAIN o.o) \cap ListKeys : o.o[x].j = "array" }
  IN { [steps |-> <<>>, key |-> x] : x \in keys }
       \cup UNION { UNION { { [steps |-> <<[key |-> x, idx |-> i]>> \o t.steps,
                               key |-> t.key] : t \in ListsOf(o.o[x].a[i]) } :
                            i \in { i \in 1..Len(o.o[x].a) :
                                      o.o[x].a[i].j = "object" } } :
                    x \in keys }

RECURSIVE SpliceAt(_, _, _, _)
SpliceAt(o, steps, key, elem) ==
  IF steps = <<>>
  THEN JObject([o.o EXCEPT ![key] = JArray(<<elem>> \o @.a)])
  ELSE LET st == Head(steps)
       IN JObject([o.o EXCEPT ![st.key] =
                     JArray([@.a EXCEPT ![st.idx] =
                               SpliceAt(@, Tail(steps), key, elem)])])

\* a JSON object whose discriminator is absent, not a string, or unregistered
UnknownVariant(e) ==
  /\ e.j = "object"
  /\ \/ typeAttrName \notin DOMAIN e.o
     \/ e.o[typeAttrName].j # "string"
     \/ e.o[typeAttrName].s \notin Registry

Foreign ==
  { JObject("type" :> JString("bogus")),
    JObject("value" :> JString("a")),
    JObject("type" :> JNumber(7)),
    JObject(("type" :> JString(TextType)) @@ ("value" :> JString("b"))),
    JString("stray") }

(***************************************************************************)
(* The JSON objects of a serialized workspace, each addressed by the steps *)
(* (list key, position) that lead to it from the top-level object.         *)
(***************************************************************************)
RECURSIVE ObjectsOf(_)
ObjectsOf(o) ==
  LET keys == { x \in (DOMAIN o.o) \cap ListKeys : o.o[x].j = "array" }
  IN {<<>>}
       \cup UNION { UNION { { <<[key |-> x, idx |-> i]>> \o t :
                               t \in ObjectsOf(o.o[x].a[i]) } :
                            i \in { i \in 1..Len(o.o[x].a) :
                                      o.o[x].a[i].j = "object" } } :
                    x \in keys }

RECURSIVE ObjectAt(_, _)
ObjectAt(o, steps) ==
  IF steps = <<>> THEN o
  ELSE ObjectAt(o.o[Head(steps).key].a[Head(steps).idx], Tail(steps))

RECURSIVE PutObjectAt(_, _, _)
PutObjectAt(o, steps, new) ==
  IF steps = <<>> THEN new
  ELSE LET st == Head(steps)
       IN JObject([o.o EXCEPT ![st.key] =
                     JArray([@.a EXCEPT ![st.idx] =
                               PutObjectAt(@, Tail(steps), new)])])

\* the discriminator a JSON object carries, "" when absent or not a string
TypeOf(o) ==
  IF typeAttrName \in DOMAIN o.o /\ o.o[typeAttrName].j = "string"
  THEN o.o[typeAttrName].s ELSE ""

\* the string attributes the toJson method of every variant writes
StringAttrs(typeName) ==
  CASE typeName = WorkspaceType -> {"title", "version"}
    [] typeName = DocumentType -> {"id", "title"}
    [] typeName = AuthorType -> {"firstname", "lastname", "email"}
    [] typeName = ChapterType -> {"title"}
    [] typeName = TextType -> {"value"}
    [] typeName = CodeType -> {"hint"}
    [] typeName = ImageType -> {"src", "width", "height"}
    [] OTHER -> {}

Without(f, key) == [x \in (DOMAIN f) \ {key} |-> f[x]]

\* the serialized workspace b with one attribute of one object left out
StripAt(b, steps, key) ==
  PutObjectAt(b, steps, JObject(Without(ObjectAt(b, steps).o, key)))

\* the serialized workspace b with one attribute of one object set to ""
BlankAt(b, steps, key) ==
  PutObjectAt(b, steps, JObject((key :> JString("")) @@ ObjectAt(b, steps).o))

\* what the top-level `type` of a hand-written file may be instead of
\* "workspace": absent (the empty record), another registered
\* discriminator, an unregistered string
TopLevelTypes ==
  { <<>>, <<JString(DocumentType)>>, <<JString("bogus")>> }

RetypeTop(b, t) ==
  IF t = <<>> THEN JObject(Without(b.o, typeAttrName))
  ELSE JObject((typeAttrName :> t[1]) @@ b.o)

(***************************************************************************)
(* State of the codec machine                                              *)
(***************************************************************************)
VARIABLES
  ws,       \* the Workspace under construction
  bytes,    \* the serialized workspace, NoBytes before Marshal
  reread,   \* what Unmarshal returned, None before Unmarshal
  spliced,  \* whether an object was spliced into bytes
  looked    \* the last ById call on ws and its result, None if outdated

codecVars == <<ws, bytes, reread, spliced, looked>>

(***************************************************************************)
(* State of the template-project machine                                   *)
(***************************************************************************)
VARIABLES
  tplName,  \* base name of the template directory
  tplTree,  \* paths of the regular files below the template directory
  buildDir, \* the staging directory, as a path below the template directory
  prj,      \* what ReadTemplate returned, NoProject before
  staging,  \* the staging directory
  built     \* what the last Template.Build returned, NoBuild before

fileVars == <<tplName, tplTree, buildDir, prj, staging, built>>

(***************************************************************************)
(* State of the build orchestrator: one Build and its Apply calls          *)
(***************************************************************************)
VARIABLES
  rules,    \* b.rules
  pc,       \* the step Apply is about to execute, "idle" outside Apply
  ri,       \* the position in b.rules of the rule Apply is processing
  frame,    \* the locals of Apply: template, objRoot, tpl, files
  calls,    \* Apply calls started so far
  results,  \* what every finished Apply call returned
  trace,    \* the steps executed so far, each with its call and rule
  faults,   \* failures of the environment so far
  cache,    \* the template cache directories below b.tmpDir
  stagings, \* the transform staging directories below b.tmpDir
  outDirs,  \* the subfolders of b.dir
  out       \* the files below b.dir, each with the call and rule it is from

buildVars ==
  <<rules, pc, ri, frame, calls, results, trace, faults, cache, stagings,
    outDirs, out>>

(***************************************************************************)
(* State of concurrent Apply calls on one Build: the goroutines share      *)
(* b.tmpDir, and with it the template cache and the staging directories    *)
(***************************************************************************)
VARIABLES
  rrule,    \* the rule of b.rules the concurrent Apply calls process
  rpc,      \* for every Apply call, the step it is about to execute
  seen,     \* for every Apply call, what its os.Stat of dstDir found
  clones,   \* for every Apply call, the git clone commands it invoked
  pulls,    \* for every Apply call, the git pull commands it invoked
  rfiles,   \* for every Apply call, the files ReadTemplate found
  listed,   \* for every Apply call, what listRootFiles returned
  rcache,   \* the cache directory of the rule's template below b.tmpDir
  rstaging  \* the staging directory of the rule below b.tmpDir

raceVars ==
  <<rrule, rpc, seen, clones, pulls, rfiles, listed, rcache, rstaging>>

vars == <<codecVars, fileVars, buildVars, raceVars>>

RaceIdle ==
  /\ rrule = <<>>
  /\ rpc = <<>>
  /\ seen = <<>>
  /\ clones = <<>>
  /\ pulls = <<>>
  /\ rfiles = <<>>
  /\ listed = <<>>
  /\ rcache = [exists |-> FALSE]
  /\ rstaging = [exists |-> FALSE]

BuildIdle ==
  /\ rules = <<>>
  /\ pc = "idle"
  /\ ri = 0
  /\ frame = [template |-> <<>>]
  /\ calls = 0
  /\ results = <<>>
  /\ trace = <<>>
  /\ faults = 0
  /\ cache = <<>>
  /\ stagings = <<>>
  /\ outDirs = {}
  /\ out = {}

CodecIdle ==
  /\ ws = [type |-> "<none>"]
  /\ bytes = [j |-> "none"]
  /\ reread = [type |-> "<none>"]
  /\ spliced = FALSE
  /\ looked = [type |-> "<none>"]

FileIdle ==
  /\ tplName = <<>>
  /\ tplTree = {}
  /\ buildDir = <<>>
  /\ prj = [err |-> FALSE, read |-> FALSE]
  /\ staging = [exists |-> FALSE, files |-> <<>>]
  /\ built = [err |-> FALSE, done |-> FALSE]

None == [type |-> "<none>"]
NoBytes == [j |-> "none"]

DocIds == {"", "A", "B"}
\* the (Id, Title) pairs a caller assigns to a document
DocFields == { <<"A", "Guide">>, <<"B", "">> }
Titles == {"", "Intro"}

\* nodes handed to Add(...): built with the constructors of model.go
Elems ==
  { Text("hello"), Code("go", <<"x", "y">>),
    Image("i.png", "1cm", ""), Newline, Newpage, TOC,
    Italic(<<Text("a")>>), Bold(<<>>), Underline(<<>>),
    TitlePage(<<>>), Chapter("c", 2, <<>>), Document("A", "", <<>>, <<>>) }

\* what else a caller may append to the exported Resources slice
Resources == Elems \cup { Author("f", "l", "e"), Workspace(0, "", "", <<>>) }

Authors == { Author("f", "l", "e"), Author("", "", "") }

Building == bytes = NoBytes

Room(n) == Size(ws) + n <= MaxNodes + 1

PathsTo(types) == { p \in PathsOf(ws) : NodeAt(ws, p).type \in types }

Built(w) ==
  /\ ws' = w
  /\ looked' = None
  /\ UNCHANGED <<bytes, reread, spliced, fileVars, buildVars, raceVars>>

InitCodec ==
  /\ ws \in { Workspace(1, "1.0.1", "W", <<>>), Workspace(0, "", "", <<>>) }
  /\ bytes = NoBytes
  /\ reread = None
  /\ spliced = FALSE
  /\ looked = None
  /\ FileIdle
  /\ BuildIdle
  /\ RaceIdle

NewDocument ==
  /\ Building /\ Room(1)
  /\ Built(WorkspaceNewDocument(ws))

\* doc.Id = id; doc.Title = title
AssignDocument ==
  /\ Building
  /\ \E p \in PathsTo({DocumentType}), f \in DocFields :
       /\ f # <<NodeAt(ws, p).Id, NodeAt(ws, p).Title>>
       /\ Built(ReplaceAt(ws, p, [NodeAt(ws, p) EXCEPT !.Id = f[1],
                                                       !.Title = f[2]]))

\* doc.Authors = append(doc.Authors, a)
AppendAuthor ==
  /\ Building /\ Room(1)
  /\ \E p \in PathsTo({DocumentType}), a \in Authors :
       Built(ReplaceAt(ws, p, [NodeAt(ws, p) EXCEPT !.Authors = Append(@, a)]))

\* w.Resources = append(w.Resources, e)
AppendResource ==
  /\ Building
  /\ \E e \in Resources :
       /\ Room(Size(e))
       /\ Built([ws EXCEPT !.Resources = Append(@, e)])

DocAdd ==
  /\ Building
  /\ \E p \in PathsTo({DocumentType}), e \in Elems :
       /\ Room(Size(e))
       /\ Built(ReplaceAt(ws, p, DocumentAdd(NodeAt(ws, p), e)))

DocNewChapter ==
  /\ Building /\ Room(1)
  /\ \E p \in PathsTo({DocumentType}), s \in Titles :
       Built(ReplaceAt(ws, p, DocumentNewChapter(NodeAt(ws, p), s)))

ChapAdd ==
  /\ Building
  /\ \E p \in PathsTo({ChapterType}), e \in Elems :
       /\ Room(Size(e))
       /\ Built(ReplaceAt(ws, p, ChapterAdd(NodeAt(ws, p), e)))

ChapNewChapter ==
  /\ Building /\ Room(1)
  /\ \E p \in PathsTo({ChapterType}), s \in Titles :
       Built(ReplaceAt(ws, p, ChapterNewChapter(NodeAt(ws, p), s)))

ChapText ==
  /\ Building /\ Room(1)
  /\ \E p \in PathsTo({ChapterType}), s \in {"", "hello"} :
       Built(ReplaceAt(ws, p, ChapterText(NodeAt(ws, p), s)))

CallById ==
  /\ Building /\ looked = None
  /\ \E id \in DocIds \cup {"C"} :
       looked' = [id |-> id, res |-> ById(ws, id)]
  /\ UNCHANGED <<ws, bytes, reread, spliced, fileVars, buildVars, raceVars>>

CallMarshal ==
  /\ Building
  /\ bytes' = Marshal(ws)
  /\ looked' = None
  /\ UNCHANGED <<ws, reread, spliced, fileVars, buildVars, raceVars>>

Splice ==
  /\ ~Building /\ reread = None /\ ~spliced
  /\ \E t \in ListsOf(bytes), e \in Foreign :
       bytes' = SpliceAt(bytes, t.steps, t.key, e)
  /\ spliced' = TRUE
  /\ UNCHANGED <<ws, reread, looked, fileVars, buildVars, raceVars>>

\* a string attribute is left out of one object of the serialized workspace
Strip ==
  /\ ~Building /\ reread = None /\ ~spliced
  /\ \E steps \in ObjectsOf(bytes) :
       \E key \in StringAttrs(TypeOf(ObjectAt(bytes, steps)))
                    \cap DOMAIN ObjectAt(bytes, steps).o :
         bytes' = StripAt(bytes, steps, key)
  /\ spliced' = TRUE
  /\ UNCHANGED <<ws, reread, looked, fileVars, buildVars, raceVars>>

\* the `type` of the top-level object is removed or replaced
Retype ==
  /\ ~Building /\ reread = None /\ ~spliced
  /\ \E t \in TopLevelTypes : bytes' = RetypeTop(bytes, t)
  /\ spliced' = TRUE
  /\ UNCHANGED <<ws, reread, looked, fileVars, buildVars, raceVars>>

CallUnmarshal ==
  /\ ~Building /\ reread = None
  /\ reread' = Unmarshal(bytes)
  /\ UNCHANGED <<ws, bytes, spliced, looked, fileVars, buildVars, raceVars>>

NextCodec ==
  \/ NewDocument
  \/ AssignDocument
  \/ AppendAuthor
  \/ AppendResource
  \/ DocAdd
  \/ DocNewChapter
  \/ ChapAdd
  \/ ChapNewChapter
  \/ ChapText
  \/ CallById
  \/ CallMarshal
  \/ Splice
  \/ Strip
  \/ Retype
  \/ CallUnmarshal

SpecCodec == InitCodec /\ [][NextCodec]_vars

(***************************************************************************)
(* Properties of the codec machine                                         *)
(***************************************************************************)

\* C1: Unmarshal(Marshal(W)) is a tree equal to W, in the sequence of
\* discriminators and in every attribute value, for every workspace W the
\* builder operations can construct.
RoundTrip == (reread # None /\ ~spliced) => reread = ws

\* some list of discriminated objects below o holds an object of unknown type
RECURSIVE HasUnknownElement(_)
HasUnknownElement(o) ==
  \E x \in (DOMAIN o.o) \cap ListKeys :
    /\ o.o[x].j = "array"
    /\ \E i \in 1..Len(o.o[x].a) :
         LET e == o.o[x].a[i]
         IN \/ UnknownVariant(e)
            \/ e.j = "object" /\ HasUnknownElement(e)

\* C2: when a resources, body or authors list of the serialized workspace
\* holds an object whose type is absent or unregistered, Unmarshal aborts:
\* it returns no tree at all.
UnknownVariantAborts ==
  (reread # None /\ HasUnknownElement(bytes)) => IsPanic(reread)

\* an unknown object below the top-level resources list was decoded
UnknownVariantSeen ==
  /\ reread # None
  /\ IsPanic(reread)
  /\ HasUnknownElement(bytes)
  /\ \A i \in 1..Len(bytes.o["resources"].a) :
       ~UnknownVariant(bytes.o["resources"].a[i])

IsDocumentWithId(i, id) ==
  /\ ws.Resources[i].type = DocumentType
  /\ ws.Resources[i].Id = id

\* C3: ById(id) is the first top-level resource that is a Document with
\* that Id, and nil exactly when no top-level Document has that Id.
ByIdFirstDocument ==
  looked # None =>
    /\ looked.res \in 0..Len(ws.Resources)
    /\ looked.res = 0 <=>
         ~\E i \in 1..Len(ws.Resources) : IsDocumentWithId(i, looked.id)
    /\ looked.res # 0 =>
         /\ IsDocumentWithId(looked.res, looked.id)
         /\ \A j \in 1..(looked.res - 1) : ~IsDocumentWithId(j, looked.id)

\* two top-level documents share the Id that was looked up
ByIdAmongDuplicates ==
  /\ looked # None
  /\ looked.res # 0
  /\ \E j \in 1..Len(ws.Resources) :
       j # looked.res /\ IsDocumentWithId(j, looked.id)

\* C11: decoding a serialized workspace in which one object of a registered
\* discriminator lacks one of its string attributes succeeds, and yields
\* what decoding yields when that attribute is the empty string.
AbsentStringIsEmpty ==
  reread # None =>
    \A steps \in ObjectsOf(Marshal(ws)) :
      \A key \in StringAttrs(TypeOf(ObjectAt(Marshal(ws), steps))) :
        (bytes # Marshal(ws) /\ bytes = StripAt(Marshal(ws), steps, key)) =>
          /\ ~IsPanic(reread)
          /\ reread = Unmarshal(BlankAt(Marshal(ws), steps, key))

\* the list key under which toJson writes the children of a node
KidsKey(n) == IF n.type = WorkspaceType THEN "resources" ELSE "body"

\* the steps to the object toJson writes for the node at path p below n
RECURSIVE StepsOf(_, _)
StepsOf(n, p) ==
  IF p = <<>> THEN <<>>
  ELSE <<[key |-> KidsKey(n), idx |-> Head(p)]>>
         \o StepsOf(Kids(n)[Head(p)], Tail(p))

\* the node decoded from the object at `steps` below o, in the tree n decoded
\* from o: assertObjList drops the list elements that are not objects
RECURSIVE NodeFor(_, _, _)
NodeFor(n, o, steps) ==
  IF steps = <<>> THEN n
  ELSE LET st == Head(steps)
           list == o.o[st.key].a
           rank == Cardinality({ i \in 1..st.idx : list[i].j = "object" })
           kid == IF st.key = "authors" THEN n.Authors[rank] ELSE Kids(n)[rank]
       IN NodeFor(kid, list[st.idx], Tail(steps))

\* C16: every node the constructors and builder methods build has a Type()
\* among the 14 registered discriminators; Marshal writes that string under
\* `type` in the object of every node, at every nesting level; every object
\* Marshal wrote is decoded, and whenever fromJson decodes an object whose
\* `type` is the registered discriminator d the node it yields has Type() d.
DiscriminatorRegistry ==
  /\ Cardinality(Registry) = 14
  /\ \A p \in PathsOf(ws) :
       /\ NodeAt(ws, p).type \in Registry
       /\ NodeAt(ws, p).type = DocumentType =>
            \A i \in 1..Len(NodeAt(ws, p).Authors) :
              NodeAt(ws, p).Authors[i].type \in Registry
  /\ (bytes # NoBytes /\ ~spliced) =>
       /\ \A p \in PathsOf(ws) :
            /\ ObjectAt(bytes, StepsOf(ws, p)).o[typeAttrName]
                 = JString(NodeAt(ws, p).type)
            /\ NodeAt(ws, p).type = DocumentType =>
                 \A i \in 1..Len(NodeAt(ws, p).Authors) :
                   ObjectAt(bytes, StepsOf(ws, p)
                                     \o <<[key |-> "authors", idx |-> i]>>)
                     .o[typeAttrName] = JString(NodeAt(ws, p).Authors[i].type)
       /\ reread # None => ~IsPanic(reread)
  /\ (reread # None /\ ~IsPanic(reread)) =>
       \A steps \in ObjectsOf(bytes) \ {<<>>} :
         NodeFor(reread, bytes, steps).type = TypeOf(ObjectAt(bytes, steps))

\* a workspace whose tree is three levels deep and holds a bold group was
\* marshalled and decoded
NestedTypesDecoded ==
  /\ reread # None /\ ~IsPanic(reread)
  /\ \E steps \in ObjectsOf(bytes) :
       Len(steps) = 2 /\ TypeOf(ObjectAt(bytes, steps)) = BoldType

\* C20: Unmarshal returns a Workspace only when the `type` of the top-level
\* object is "workspace"; a top-level object whose `type` is absent, another
\* registered discriminator or unregistered is rejected.
TopLevelDiscriminator ==
  (reread # None /\ TypeOf(bytes) # WorkspaceType) =>
    reread.type # WorkspaceType

(***************************************************************************)
(* File names are sequences of characters, so that the extension, the      *)
(* lower-casing and the suffix stripping of NewFile are computed.          *)
(***************************************************************************)
NameIndexTmpl == <<"i", "n", "d", "e", "x", ".", "t", "m", "p", "l">>
NameMyfileTexTmpl == <<"m", "y", "f", "i", "l", "e", ".", "t", "e", "x", ".", "t", "m", "p", "l">>
NamePageGohtml == <<"p", "a", "g", "e", ".", "g", "o", "h", "t", "m", "l">>
NameLogoPng == <<"l", "o", "g", "o", ".", "p", "n", "g">>
NameUpperTmpl == <<"X", ".", "T", "M", "P", "L">>
NameMixedGohtml == <<"P", ".", "G", "o", "H", "t", "m", "l">>
NameX == <<"x">>
NameXTmpl == <<"x", ".", "t", "m", "p", "l">>
NameOnlySuffix == <<".", "t", "m", "p", "l">>
NameNoDot == <<"t", "m", "p", "l">>
NameLatexmkrc == <<"l", "a", "t", "e", "x", "m", "k", "r", "c">>
NameDSStore == <<".", "D", "S", "_", "S", "t", "o", "r", "e">>
NameGit == <<".", "g", "i", "t">>
NameSub == <<"s", "u", "b">>
NameMainPdf == <<"m", "a", "i", "n", ".", "p", "d", "f">>

htmlTemplate == <<".", "g", "o", "h", "t", "m", "l">>
textTemplate == <<".", "t", "m", "p", "l">>

\* strings.ToLower on the letters that occur in the names above
LowerChar(c) ==
  CASE c = "T" -> "t" [] c = "M" -> "m" [] c = "P" -> "p" [] c = "L" -> "l"
    [] c = "G" -> "g" [] c = "H" -> "h" [] c = "X" -> "x" [] c = "D" -> "d"
    [] c = "S" -> "s" [] OTHER -> c

ToLower(str) == [i \in 1..Len(str) |-> LowerChar(str[i])]

\* filepath.Ext: the suffix from the last dot of the name, "" without a dot
Ext(name) ==
  LET dots == { i \in 1..Len(name) : name[i] = "." }
  IN IF dots = {} THEN <<>>
     ELSE SubSeq(name, CHOOSE i \in dots : \A k \in dots : k <= i, Len(name))

HasSuffix(str, suffix) ==
  /\ Len(str) >= Len(suffix)
  /\ SubSeq(str, Len(str) - Len(suffix) + 1, Len(str)) = suffix

HasPrefix(str, prefix) ==
  /\ Len(str) >= Len(prefix)
  /\ SubSeq(str, 1, Len(prefix)) = prefix

\* a path is the sequence of its elements; filepath.Base and filepath.Dir
Base(path) == path[Len(path)]
Dir(path) == SubSeq(path, 1, Len(path) - 1)

\* the byte value of the characters, for the lexical order of a walk
CharCode ==
  "." :> 46 @@ "D" :> 68 @@ "G" :> 71 @@ "H" :> 72 @@ "L" :> 76
    @@ "M" :> 77 @@ "P" :> 80 @@ "S" :> 83 @@ "T" :> 84 @@ "X" :> 88
    @@ "_" :> 95 @@ "a" :> 97 @@ "b" :> 98 @@ "c" :> 99 @@ "d" :> 100
    @@ "e" :> 101 @@ "f" :> 102 @@ "g" :> 103 @@ "h" :> 104 @@ "i" :> 105
    @@ "j" :> 106 @@ "k" :> 107 @@ "l" :> 108 @@ "m" :> 109 @@ "n" :> 110
    @@ "o" :> 111 @@ "p" :> 112 @@ "q" :> 113 @@ "r" :> 114 @@ "s" :> 115
    @@ "t" :> 116 @@ "u" :> 117 @@ "v" :> 118 @@ "w" :> 119 @@ "x" :> 120
    @@ "y" :> 121 @@ "z" :> 122

\* str1 < str2 in byte order, a proper prefix first
RECURSIVE LessName(_, _)
LessName(a, b) ==
  IF b = <<>> THEN FALSE
  ELSE IF a = <<>> THEN TRUE
  ELSE IF a[1] # b[1] THEN CharCode[a[1]] < CharCode[b[1]]
  ELSE LessName(Tail(a), Tail(b))

\* the order in which filepath.Walk visits two paths: directory entries are
\* read sorted by name and a directory is descended into where it stands
RECURSIVE LessPath(_, _)
LessPath(p, q) ==
  IF q = <<>> THEN FALSE
  ELSE IF p = <<>> THEN TRUE
  ELSE IF p[1] # q[1] THEN LessName(p[1], q[1])
  ELSE LessPath(Tail(p), Tail(q))

RECURSIVE SortPaths(_)
SortPaths(S) ==
  IF S = {} THEN <<>>
  ELSE LET first == CHOOSE p \in S : \A q \in S \ {p} : LessPath(p, q)
       IN <<first>> \o SortPaths(S \ {first})

(***************************************************************************)
(* transformer.go: NewFile.  fname is the path of the source file below    *)
(* the template directory; parses tells whether its template text parses.  *)
(***************************************************************************)
File(src, dst, transformer) ==
  [err |-> FALSE, srcFile |-> src, dstFilename |-> dst,
   transformer |-> transformer]

NoFile == [err |-> TRUE]

\* variant of NewFile that compares the extension as it is spelled
NewFileCaseSensitive(fname, parses) ==
  LET basePath == Base(fname)
      ext == Ext(basePath)
  IN CASE ext = htmlTemplate ->
            IF parses
            THEN File(fname,
                      SubSeq(basePath, 1, Len(basePath) - Len(htmlTemplate)),
                      "html")
            ELSE NoFile
       [] ext = textTemplate ->
            IF parses
            THEN File(fname,
                      SubSeq(basePath, 1, Len(basePath) - Len(textTemplate)),
                      "text")
            ELSE NoFile
       [] OTHER -> File(fname, basePath, "copy")

NewFile(fname, parses) ==
  LET basePath == Base(fname)
      ext == ToLower(Ext(basePath))
  IN CASE ext = htmlTemplate ->
            IF parses
            THEN File(fname,
                      SubSeq(basePath, 1, Len(basePath) - Len(htmlTemplate)),
                      "html")
            ELSE NoFile
       [] ext = textTemplate ->
            IF parses
            THEN File(fname,
                      SubSeq(basePath, 1, Len(basePath) - Len(textTemplate)),
                      "text")
            ELSE NoFile
       [] OTHER -> File(fname, basePath, "copy")

(***************************************************************************)
(* build.go: ReadTemplate.  A template directory is given by the base name *)
(* of its path and the set of paths of the regular files below it;         *)
(* buildRel is the path of the staging directory below the template        *)
(* directory, NotInside when it lies elsewhere.  bad is the file whose     *)
(* template text does not parse, NoPath when every file parses.            *)
(***************************************************************************)
NotInside == <<<<"/">>>>
NoPath == <<<<"?">>>>

IsPathPrefix(p, q) == Len(p) <= Len(q) /\ SubSeq(q, 1, Len(p)) = p

\* the files filepath.Walk hands to NewFile, in the order of the walk
Walked(name, tree, buildRel) ==
  IF HasPrefix(name, <<".">>) \/ buildRel = <<>> THEN <<>>
  ELSE SortPaths({ f \in tree :
         /\ \A i \in 1..(Len(f) - 1) : ~HasPrefix(f[i], <<".">>)
         /\ ~(buildRel # NotInside /\ IsPathPrefix(buildRel, f))
         /\ Base(f) # NameDSStore })

RECURSIVE ScanFiles(_, _, _)
\* prj.files after the walk function ran on walked[i..]; err when NewFile failed
ScanFiles(walked, bad, i) ==
  IF i > Len(walked) THEN [err |-> FALSE, files |-> <<>>]
  ELSE LET file == NewFile(walked[i], walked[i] # bad)
       IN IF file.err THEN [err |-> TRUE, files |-> <<>>]
          ELSE LET rest == ScanFiles(walked, bad, i + 1)
               IN [err |-> rest.err, files |-> <<file>> \o rest.files]

ReadTemplate(name, tree, buildRel, bad) ==
  ScanFiles(Walked(name, tree, buildRel), bad, 1)

(***************************************************************************)
(* File contents are sequences of bytes; a byte is named by the file it    *)
(* comes from and its offset.  A template execution emits RenderLen bytes  *)
(* that depend on the template, its flavor and the model.                  *)
(***************************************************************************)
SrcLen == 3
RenderLen == 2

SrcBytes(src) ==
  [i \in 1..SrcLen |-> [of |-> src, via |-> "src", model |-> 0, at |-> i]]

Rendered(flavor, src, model) ==
  [i \in 1..RenderLen |-> [of |-> src, via |-> flavor, model |-> model, at |-> i]]

\* Transformer.Transform: what a successful transform writes to out
Transform(file, model) ==
  IF file.transformer = "copy" THEN SrcBytes(file.srcFile)
  ELSE Rendered(file.transformer, file.srcFile, model)

\* a write at offset 0 into a file opened without O_TRUNC
Overlay(old, new) ==
  IF Len(old) > Len(new) THEN new \o SubSeq(old, Len(new) + 1, Len(old))
  ELSE new

(***************************************************************************)
(* The staging directory: whether it exists and the bytes of every file    *)
(* below it, by path relative to the staging directory.                    *)
(***************************************************************************)
NoStaging == [exists |-> FALSE, files |-> <<>>]
EmptyStaging == [exists |-> TRUE, files |-> <<>>]

StagedPaths(st) == { st.files[i].path : i \in 1..Len(st.files) }

StagedBytes(st, path) ==
  LET i == CHOOSE i \in 1..Len(st.files) : st.files[i].path = path
  IN st.files[i].bytes

WriteStaged(st, path, data) ==
  IF path \in StagedPaths(st)
  THEN [st EXCEPT !.files =
          [i \in 1..Len(st.files) |->
             IF st.files[i].path = path
             THEN [path |-> path, bytes |-> Overlay(st.files[i].bytes, data)]
             ELSE st.files[i]]]
  ELSE [st EXCEPT !.files = Append(@, [path |-> path, bytes |-> data])]

\* File.Apply: the path of the staged file below the staging directory
DstFile(file) ==
  IF file.dstFilename = <<>> THEN Dir(file.srcFile)
  ELSE Dir(file.srcFile) \o <<file.dstFilename>>

\* os.OpenFile fails on a directory and below a regular file
CannotOpen(st, dst) ==
  \/ dst = <<>>
  \/ \E q \in StagedPaths(st) : q # dst /\ IsPathPrefix(dst, q)
  \/ \E q \in StagedPaths(st) : q # dst /\ IsPathPrefix(q, dst)

\* File.Apply; fails tells whether the transform returns an error
FileApply(st, file, model, fails) ==
  IF CannotOpen(st, DstFile(file)) THEN [err |-> TRUE, st |-> st]
  ELSE IF fails THEN [err |-> TRUE, st |-> WriteStaged(st, DstFile(file), <<>>)]
  ELSE [err |-> FALSE,
        st |-> WriteStaged(st, DstFile(file), Transform(file, model))]

(***************************************************************************)
(* build.go: Template.Build, autobuild and listRootFiles.  fault names the *)
(* step at which the environment fails: removing or creating the staging   *)
(* directory, the transform of file number i, latexmk, or listing.         *)
(***************************************************************************)
Fault(at, i) == [at |-> at, i |-> i]
NoFault == Fault("none", 0)

RECURSIVE ApplyFiles(_, _, _, _, _)
ApplyFiles(st, files, model, fault, i) ==
  IF i > Len(files) THEN [err |-> FALSE, st |-> st]
  ELSE LET r == FileApply(st, files[i], model, fault = Fault("apply", i))
       IN IF r.err THEN r ELSE ApplyFiles(r.st, files, model, fault, i + 1)

\* the names of the entries of the staging directory, sorted by name
listRootFiles(st) ==
  LET names == { <<p[1]>> : p \in StagedPaths(st) }
      sorted == SortPaths(names)
  IN [i \in 1..Len(sorted) |-> sorted[i][1]]

autobuild(st, fault) ==
  IF \E p \in StagedPaths(st) : p[1] = NameLatexmkrc
  THEN IF fault.at = "latexmk" THEN [err |-> TRUE, files |-> <<>>, st |-> st]
       ELSE LET made == WriteStaged(st, <<NameMainPdf>>,
                                    Rendered("latexmk", <<NameMainPdf>>, 0))
            IN IF fault.at = "list"
               THEN [err |-> TRUE, files |-> <<>>, st |-> made]
               ELSE [err |-> FALSE,
                     files |-> SelectSeq(listRootFiles(made),
                                 LAMBDA f : HasSuffix(f, <<".", "p", "d", "f">>)),
                     st |-> made]
  ELSE IF fault.at = "list" THEN [err |-> TRUE, files |-> <<>>, st |-> st]
       ELSE [err |-> FALSE, files |-> listRootFiles(st), st |-> st]

TemplateBuild(files, st, model, fault) ==
  IF fault.at = "remove" THEN [err |-> TRUE, files |-> <<>>, st |-> st]
  ELSE IF fault.at = "mkdir"
  THEN [err |-> TRUE, files |-> <<>>, st |-> NoStaging]
  ELSE LET r == ApplyFiles(EmptyStaging, files, model, fault, 1)
       IN IF r.err THEN [err |-> TRUE, files |-> <<>>, st |-> r.st]
          ELSE autobuild(r.st, fault)

(***************************************************************************)
(* The template-project machine: ReadTemplate on a template directory,     *)
(* then Template.Build against a model.                                    *)
(***************************************************************************)
MaxFiles == 2      \* regular files below the template directory

NoProject == [err |-> FALSE, read |-> FALSE]
NoBuild == [err |-> FALSE, done |-> FALSE]

\* the files a template directory may hold
TemplateFiles ==
  { <<NameIndexTmpl>>, <<NameSub, NameMyfileTexTmpl>>, <<NamePageGohtml>>,
    <<NameLogoPng>>, <<NameSub, NameLogoPng>>, <<NameUpperTmpl>>,
    <<NameMixedGohtml>>, <<NameX>>, <<NameXTmpl>>, <<NameOnlySuffix>>,
    <<NameNoDot>>, <<NameLatexmkrc>>, <<NameDSStore>>, <<NameGit, NameX>> }

TemplateNames == { NameX, NameGit }

Models == { 1, 2 }

IsTemplateFile(f) == ToLower(Ext(Base(f))) \in {htmlTemplate, textTemplate}

InitFile ==
  /\ CodecIdle
  /\ BuildIdle
  /\ RaceIdle
  /\ tplName \in TemplateNames
  /\ tplTree \in { t \in SUBSET TemplateFiles : Cardinality(t) <= MaxFiles }
  /\ buildDir \in { NotInside, <<NameSub>> }
  /\ prj = NoProject
  /\ staging = NoStaging
  /\ built = NoBuild

CallReadTemplate ==
  /\ prj = NoProject
  /\ \E bad \in {NoPath} \cup { f \in tplTree : IsTemplateFile(f) } :
       LET r == ReadTemplate(tplName, tplTree, buildDir, bad)
       IN prj' = [err |-> r.err, read |-> TRUE, files |-> r.files]
  /\ UNCHANGED <<codecVars, buildVars, raceVars, tplName, tplTree, buildDir, staging,
                 built>>

Faults(files) ==
  { NoFault, Fault("remove", 0), Fault("mkdir", 0), Fault("latexmk", 0),
    Fault("list", 0) } \cup { Fault("apply", i) : i \in 1..Len(files) }

CallBuild ==
  /\ prj # NoProject /\ ~prj.err
  /\ \E model \in Models, fault \in Faults(prj.files) :
       LET r == TemplateBuild(prj.files, staging, model, fault)
       IN /\ staging' = r.st
          /\ built' = [err |-> r.err, done |-> TRUE, files |-> r.files,
                       model |-> model]
  /\ UNCHANGED <<codecVars, buildVars, raceVars, tplName, tplTree, buildDir, prj>>

NextFile ==
  \/ CallReadTemplate
  \/ CallBuild

SpecFile == InitFile /\ [][NextFile]_vars

(***************************************************************************)
(* Properties of the template-project machine                              *)
(***************************************************************************)
Cut(base, suffix) == SubSeq(base, 1, Len(base) - Len(suffix))

\* the staged file of descriptor i is written by no other descriptor
StagedAlone(i) ==
  \A k \in 1..Len(prj.files) :
    k # i =>
      Dir(prj.files[k].srcFile) \o <<prj.files[k].dstFilename>>
        # Dir(prj.files[i].srcFile) \o <<prj.files[i].dstFilename>>

\* descriptor i has the transform `flavor` and the destination name dst and,
\* once a Build succeeded, its staged file holds what that transform emits
Dispatched(i, flavor, dst, checked) ==
  LET f == prj.files[i]
      at == Dir(f.srcFile) \o <<dst>>
  IN /\ f.transformer = flavor
     /\ f.dstFilename = dst
     /\ (built.done /\ ~built.err /\ checked) =>
          /\ at \in StagedPaths(staging)
          /\ StagedBytes(staging, at) =
               IF flavor = "copy" THEN SrcBytes(f.srcFile)
               ELSE Rendered(flavor, f.srcFile, built.model)

StagingMirrorsSource ==
  ( /\ prj.read /\ ~prj.err
    /\ built.done /\ ~built.err
    /\ <<NameLatexmkrc>> \notin StagedPaths(staging) ) =>
      /\ StagedPaths(staging)
           = { Dir(prj.files[i].srcFile) \o <<prj.files[i].dstFilename>> :
                 i \in 1..Len(prj.files) }
      /\ Cardinality(StagedPaths(staging)) = Len(prj.files)

\* the files of the template directory that are not .DS_Store, not below a
\* hidden subdirectory and not below the staging directory
Eligible ==
  { f \in tplTree :
      /\ Base(f) # NameDSStore
      /\ \A i \in 1..(Len(f) - 1) : ~HasPrefix(f[i], <<".">>)
      /\ ~IsPathPrefix(buildDir, f) }

\* C13: whatever the name of the source directory, ReadTemplate creates
\* exactly one file descriptor for every regular file below it that is not
\* .DS_Store, not below a hidden subdirectory and not below the staging
\* directory, and no descriptor for any other file.
WalkCoversTree ==
  (prj.read /\ ~prj.err) =>
    /\ { prj.files[i].srcFile : i \in 1..Len(prj.files) } = Eligible
    /\ Len(prj.files) = Cardinality(Eligible)

\* C18: two different source files of one template project are never
\* staged to the same path, and after a successful Build every staged file
\* holds exactly the output of the transform of one source file.
NoStagedCollision ==
  (prj.read /\ ~prj.err) =>
    \A i \in 1..Len(prj.files) :
      /\ StagedAlone(i)
      /\ (built.done /\ ~built.err) =>
           StagedBytes(staging, DstFile(prj.files[i]))
             = Transform(prj.files[i], built.model)

(***************************************************************************)
(* build.go: the Build, its rules and the directories it derives.  A       *)
(* directory is the sequence of the elements of its path.  sha256.Sum224   *)
(* followed by hex.EncodeToString is a function of the hashed string that  *)
(* is taken to be injective.                                               *)
(***************************************************************************)
MaxRules == 2      \* rules added to the Build
MaxCalls == 2      \* Apply calls on the Build
MaxFaults == 1     \* failures of the environment (git, file system, render)
MaxInvocations == 2 \* Apply calls that run concurrently on one Build

BuildRule(id, template, name) ==
  [Id |-> id, Template |-> template, Name |-> name]

\* b.tmpDir and b.dir
TmpDir == "/tmp/wdydoc"
OutputDir == ".build"

Sum224(str) == "sha224(" \o str \o ")"

isUrl(str) ==
  /\ Len(str) >= 4
  /\ \A i \in 1..4 : LowerChar(SubSeq(str, i, i)) = SubSeq("http", i, i)

\* dstDir of provideTemplate
TemplateDir(urlOrDir) == <<TmpDir, "template", Sum224(urlOrDir)>>

\* variant of TransformTmpDir that hashes the template reference alone
TransformTmpDirOfTemplate(r) == <<TmpDir, "transform", Sum224(r.Template)>>

\* transformTmpDir of Apply
TransformTmpDir(r) == <<TmpDir, "transform", Sum224(r.Id \o r.Template)>>

\* targetDir of Apply
TargetDir(r) == <<OutputDir, r.Name>>

\* b.workspace
BuildWorkspace ==
  Workspace(1, "1.0.1", "W",
            << Text("x"),
               Document("a", "", <<>>, <<Chapter("Intro", 0, <<Text("hello")>>)>>),
               Document("ab", "", <<>>, <<>>) >>)

\* the rules a caller may add: identifiers "a" and "ab" resolve, "zz" does not
Rules ==
  { BuildRule("a", "http://t", "n1"), BuildRule("ab", "http://t", "n2"),
    BuildRule("zz", "http://t", "n2"), BuildRule("ab", "c", "n1"),
    BuildRule("a", "bc", "n2"), BuildRule("a", "c", "n1"),
    BuildRule("a", "gone", "n1"), BuildRule("ab", "HTTP://u", "n2") }

\* the local template directories that exist, and the files below them
LocalTemplates == { "c", "bc" }

LocalTree(template) ==
  IF template = "c" THEN { <<NameLogoPng>>, <<NameSub, NameLogoPng>> }
  ELSE { <<NameXTmpl>> }

\* the files of the repository behind a remote template
RemoteTree(url) ==
  IF url = "http://t" THEN { <<NameIndexTmpl>> } ELSE { <<NameLogoPng>> }

\* the base name of a provisioned template directory (never hidden here)
TemplateName(template) == <<"t">>

(***************************************************************************)
(* build.go: where Apply goes after each step, given the step's outcome.   *)
(* "fail" is `return fmt.Errorf(...)`, "next" is the end of the loop body. *)
(***************************************************************************)
\* variant of AfterStat that clones whether or not the directory exists
AfterStatAlwaysClone(exists) == "clone"

\* provideTemplate: pull when os.Stat finds the cache directory, else clone
AfterStat(exists) == IF exists THEN "pull" ELSE "clone"

AfterProvide(err) == IF err THEN "fail" ELSE "resolve"

\* variant of AfterResolve that goes on with a nil objRoot
AfterResolveIgnoringMiss(objRoot) == "read"

AfterResolve(objRoot) == IF objRoot = 0 THEN "fail" ELSE "read"

AfterRead(err) == IF err THEN "fail" ELSE "build"

\* err of tpl.Build is overwritten by the err of os.MkdirAll before any test
AfterBuild(err) == "mkdir"

AfterMkdir(err) == IF err THEN "fail" ELSE "copy"

AfterCopy(err) == IF err THEN "fail" ELSE "next"

\* an executed step: its call and rule, whether it succeeded, the directory
\* it worked on and, for a copy, the artifacts it copied and the staged
\* files they stood for
Step(step, ok, dir) ==
  [call |-> calls, rule |-> ri, step |-> step, ok |-> ok, dir |-> dir,
   files |-> <<>>, staged |-> {}]

Goto(next) ==
  CASE next = "fail" ->
         /\ pc' = "idle"
         /\ ri' = 0
         /\ results' = Append(results, [err |-> TRUE, rule |-> ri])
    [] next = "next" /\ ri < Len(rules) ->
         /\ pc' = "provide"
         /\ ri' = ri + 1
         /\ UNCHANGED results
    [] next = "next" /\ ri >= Len(rules) ->
         /\ pc' = "idle"
         /\ ri' = 0
         /\ results' = Append(results, [err |-> FALSE, rule |-> 0])
    [] OTHER ->
         /\ pc' = next
         /\ UNCHANGED <<ri, results>>

\* the environment may fail once more
MayFail == faults < MaxFaults

Outcome(ok) == faults' = IF ok THEN faults ELSE faults + 1

InitBuild ==
  /\ CodecIdle
  /\ FileIdle
  /\ BuildIdle
  /\ RaceIdle

AddRule ==
  /\ pc = "idle" /\ Len(rules) < MaxRules
  /\ \E r \in Rules : rules' = Append(rules, r)
  /\ UNCHANGED <<codecVars, fileVars, raceVars, pc, ri, frame, calls, results, trace,
                 faults, cache, stagings, outDirs, out>>

\* Apply is called; with no rule it returns nil at once
CallApply ==
  /\ pc = "idle" /\ calls < MaxCalls
  /\ calls' = calls + 1
  /\ IF rules = <<>>
     THEN /\ results' = Append(results, [err |-> FALSE, rule |-> 0])
          /\ UNCHANGED <<pc, ri>>
     ELSE /\ pc' = "provide"
          /\ ri' = 1
          /\ UNCHANGED results
  /\ frame' = [template |-> <<>>]
  /\ UNCHANGED <<codecVars, fileVars, raceVars, rules, trace, faults, cache, stagings,
                 outDirs, out>>

\* provideTemplate up to the os.Stat that tells a pull from a clone
Provide ==
  /\ pc = "provide"
  /\ LET r == rules[ri]
         dstDir == TemplateDir(r.Template)
     IN IF isUrl(r.Template)
        THEN /\ frame' = [template |-> dstDir]
             /\ trace' = Append(trace, Step("stat", TRUE, dstDir))
             /\ Goto(AfterStat(dstDir \in DOMAIN cache))
        ELSE /\ frame' = [template |-> <<r.Template>>]
             /\ trace' = Append(trace, Step("stat", r.Template \in LocalTemplates,
                                            <<r.Template>>))
             /\ Goto(AfterProvide(r.Template \notin LocalTemplates))
  /\ UNCHANGED <<codecVars, fileVars, raceVars, rules, calls, faults, cache, stagings,
                 outDirs, out>>

\* git pull in the cache directory; it cannot succeed outside a repository
Pull ==
  /\ pc = "pull"
  /\ \E ok \in { b \in BOOLEAN : (b => cache[frame.template].cloned)
                                  /\ (~b /\ cache[frame.template].cloned
                                        => MayFail) } :
       /\ trace' = Append(trace, Step("pull", ok, frame.template))
       /\ faults' = IF ok \/ ~cache[frame.template].cloned
                    THEN faults ELSE faults + 1
       /\ Goto(AfterProvide(~ok))
  /\ UNCHANGED <<codecVars, fileVars, raceVars, rules, frame, calls, cache, stagings,
                 outDirs, out>>

\* os.MkdirAll of the cache directory, then git clone into it
Clone ==
  /\ pc = "clone"
  /\ \E made \in { b \in BOOLEAN : ~b => MayFail },
        ok \in { b \in BOOLEAN : ~b => MayFail } :
       /\ made \/ ok
       /\ IF ~made
          THEN /\ trace' = Append(trace, Step("mkcache", FALSE, frame.template))
               /\ UNCHANGED cache
          ELSE /\ trace' = Append(trace, Step("clone", ok, frame.template))
               /\ cache' = (frame.template :>
                              [cloned |-> ok,
                               tree |-> IF ok THEN RemoteTree(rules[ri].Template)
                                        ELSE {}]) @@ cache
       /\ Outcome(made /\ ok)
       /\ Goto(AfterProvide(~(made /\ ok)))
  /\ UNCHANGED <<codecVars, fileVars, raceVars, rules, frame, calls, stagings, outDirs,
                 out>>

Resolve ==
  /\ pc = "resolve"
  /\ LET objRoot == ById(BuildWorkspace, rules[ri].Id)
     IN /\ frame' = [template |-> frame.template, objRoot |-> objRoot]
        /\ trace' = Append(trace, Step("resolve", objRoot # 0, <<>>))
        /\ Goto(AfterResolve(objRoot))
  /\ UNCHANGED <<codecVars, fileVars, raceVars, rules, calls, faults, cache, stagings,
                 outDirs, out>>

\* the files below the provisioned template directory
ProvidedTree ==
  IF isUrl(rules[ri].Template) THEN cache[frame.template].tree
  ELSE LocalTree(rules[ri].Template)

Read ==
  /\ pc = "read"
  /\ \E bad \in {NoPath} \cup { f \in ProvidedTree : MayFail /\ IsTemplateFile(f) } :
       LET tpl == ReadTemplate(TemplateName(rules[ri].Template), ProvidedTree,
                               NotInside, bad)
       IN /\ frame' = [template |-> frame.template, objRoot |-> frame.objRoot,
                       tpl |-> tpl.files]
          /\ trace' = Append(trace, Step("read", ~tpl.err,
                                         TransformTmpDir(rules[ri])))
          /\ Outcome(~tpl.err)
          /\ Goto(AfterRead(tpl.err))
  /\ UNCHANGED <<codecVars, fileVars, raceVars, rules, calls, cache, stagings, outDirs,
                 out>>

\* the staging directory of the current rule, before tpl.Build
CurrentStaging ==
  IF TransformTmpDir(rules[ri]) \in DOMAIN stagings
  THEN stagings[TransformTmpDir(rules[ri])]
  ELSE NoStaging

\* tpl.Build(objRoot)
Build ==
  /\ pc = "build"
  /\ \E fault \in { f \in Faults(frame.tpl) :
                     \/ f = NoFault
                     \/ /\ MayFail
                        /\ TemplateBuild(frame.tpl, CurrentStaging,
                                         frame.objRoot, f).err } :
       LET r == TemplateBuild(frame.tpl, CurrentStaging, frame.objRoot, fault)
       IN /\ stagings' = (TransformTmpDir(rules[ri]) :> r.st) @@ stagings
          /\ frame' = [template |-> frame.template, objRoot |-> frame.objRoot,
                       tpl |-> frame.tpl, files |-> r.files]
          /\ trace' = Append(trace, Step("build", ~r.err,
                                         TransformTmpDir(rules[ri])))
          /\ Outcome(fault = NoFault)
          /\ Goto(AfterBuild(r.err))
  /\ UNCHANGED <<codecVars, fileVars, raceVars, rules, calls, cache, outDirs, out>>

\* os.MkdirAll(targetDir, os.ModePerm)
Mkdir ==
  /\ pc = "mkdir"
  /\ \E ok \in { b \in BOOLEAN : ~b => MayFail } :
       /\ outDirs' = IF ok THEN outDirs \cup {rules[ri].Name} ELSE outDirs
       /\ trace' = Append(trace, Step("mkdir", ok, TargetDir(rules[ri])))
       /\ Outcome(ok)
       /\ Goto(AfterMkdir(~ok))
  /\ UNCHANGED <<codecVars, fileVars, raceVars, rules, frame, calls, cache, stagings,
                 out>>

(***************************************************************************)
(* util.go: CopyFile, CopyDir and IsDir on an artifact of the staging      *)
(* directory st, as the entries they create below the target directory.    *)
(***************************************************************************)
Entry(dir, path, kind, data) ==
  [dir |-> dir, path |-> path, kind |-> kind, bytes |-> data,
   call |-> calls, rule |-> ri]

IsDir(st, f) == \E q \in StagedPaths(st) : q[1] = f /\ Len(q) > 1

CopyFile(st, f, dir) == { Entry(dir, <<f>>, "file", StagedBytes(st, <<f>>)) }

\* nested tells whether the copies below the directory succeed: their
\* errors are printed and not returned
CopyDir(st, f, dir, nested) ==
  UNION { { Entry(dir, SubSeq(q, 1, k), "dir", <<>>) : k \in 1..(Len(q) - 1) } :
          q \in { p \in StagedPaths(st) : p[1] = f } }
    \cup (IF nested
          THEN { Entry(dir, q, "file", StagedBytes(st, q)) :
                   q \in { q \in StagedPaths(st) : q[1] = f } }
          ELSE {})

CopyArtifact(st, f, dir, nested) ==
  IF IsDir(st, f) THEN CopyDir(st, f, dir, nested) ELSE CopyFile(st, f, dir)

\* variant of Written in which a copy replaces what b.dir held before
WrittenOnly(entries) == entries

\* the entries below b.dir after `entries` were written
Written(entries) ==
  entries \cup { o \in out : \A e \in entries :
                               <<e.dir, e.path>> # <<o.dir, o.path>> }

\* the loop over files; fault names the artifact whose copy fails
Copy ==
  /\ pc = "copy"
  /\ LET st == stagings[TransformTmpDir(rules[ri])]
         files == frame.files
         dir == rules[ri].Name
     IN \E fault \in {NoFault}
               \cup { Fault("copy", k) : k \in { k \in 1..Len(files) : MayFail } }
               \cup { Fault("nested", k) :
                        k \in { k \in 1..Len(files) :
                                  MayFail /\ IsDir(st, files[k]) } } :
          LET last == IF fault.at = "copy" THEN fault.i - 1 ELSE Len(files)
              entries == UNION { CopyArtifact(st, files[k], dir,
                                              fault # Fault("nested", k)) :
                                 k \in 1..last }
          IN /\ out' = Written(entries)
             /\ trace' = Append(trace,
                  [Step("copy", fault.at # "copy", TargetDir(rules[ri]))
                     EXCEPT !.files = SubSeq(files, 1, last),
                            !.staged =
                              { [path |-> q, bytes |-> StagedBytes(st, q)] :
                                  q \in { q \in StagedPaths(st) :
                                            \E k \in 1..last :
                                              q[1] = files[k] } }])
             /\ Outcome(fault = NoFault)
             /\ Goto(AfterCopy(fault.at = "copy"))
  /\ UNCHANGED <<codecVars, fileVars, raceVars, rules, frame, calls, cache, stagings,
                 outDirs>>

Next ==
  \/ AddRule
  \/ CallApply
  \/ Provide
  \/ Pull
  \/ Clone
  \/ Resolve
  \/ Read
  \/ Build
  \/ Mkdir
  \/ Copy

Spec == InitBuild /\ [][Next]_vars

(***************************************************************************)
(* Properties of the build orchestrator                                    *)
(***************************************************************************)
\* the provisionings of the cache directory dir that got past os.Stat, in
\* order: a failed MkdirAll, a clone or a pull
Provisionings(dir) ==
  SelectSeq(trace, LAMBDA e : e.step \in {"mkcache", "clone", "pull"}
                              /\ e.dir = dir)

CacheDirs == { trace[k].dir : k \in { k \in 1..Len(trace) :
                                       trace[k].step \in {"mkcache", "clone", "pull"} } }

\* C5 (as stated): the first provisioning of a URL performs the clone and
\* every later provisioning of that URL performs a pull.
CloneFirstThenPull ==
  \A dir \in CacheDirs :
    LET g == Provisionings(dir)
    IN \A k \in 1..Len(g) : g[k].step = IF k = 1 THEN "clone" ELSE "pull"

\* C5 (as amended): for every URL, the first provisioning at which the cache
\* directory can be created performs the one clone, every provisioning after
\* it performs a pull on that directory and no clone, and a provisioning at
\* which the directory cannot be created performs neither.
CloneOnceThenPull ==
  \A dir \in CacheDirs :
    LET g == Provisionings(dir)
    IN \A k \in 1..Len(g) :
         /\ g[k].step = "pull" <=> \E j \in 1..(k - 1) : g[j].step = "clone"
         /\ g[k].step = "clone" =>
              \A j \in 1..(k - 1) : g[j].step = "mkcache"

\* one URL was provisioned three times: MkdirAll failed, then clone, then pull
ProvisionedThrice ==
  \E dir \in CacheDirs :
    LET g == Provisionings(dir)
    IN /\ Len(g) >= 3
       /\ g[1].step = "mkcache" /\ g[2].step = "clone" /\ g[3].step = "pull"

\* C6: rules with the same template reference and different identifiers
\* render into different staging directories, and no staging directory is a
\* template cache directory or lies below one.
StagingSeparate ==
  /\ \A j, k \in 1..Len(trace) :
       ( /\ trace[j].step = "build" /\ trace[k].step = "build"
         /\ rules[trace[j].rule].Template = rules[trace[k].rule].Template
         /\ rules[trace[j].rule].Id # rules[trace[k].rule].Id )
       => trace[j].dir # trace[k].dir
  /\ \A k \in 1..Len(trace) :
       trace[k].step = "build" =>
         \A dir \in CacheDirs \cup DOMAIN cache :
           ~IsPathPrefix(dir, trace[k].dir)
  /\ \A dir \in DOMAIN stagings : dir \notin DOMAIN cache

\* two rules on one remote template and different identifiers were rendered
SharedTemplateRendered ==
  \E j, k \in 1..Len(trace) :
    /\ trace[j].step = "build" /\ trace[k].step = "build"
    /\ rules[trace[j].rule].Template = rules[trace[k].rule].Template
    /\ rules[trace[j].rule].Id # rules[trace[k].rule].Id
    /\ isUrl(rules[trace[j].rule].Template)
    /\ TemplateDir(rules[trace[j].rule].Template) \in DOMAIN cache

SameRule(e, f) == e.call = f.call /\ e.rule = f.rule

\* C7: when the identifier of a rule matches no document, Apply returns an
\* error at that rule and the rule creates and writes nothing below b.dir.
MissingSubtreeWritesNothing ==
  \A k \in 1..Len(trace) :
    (trace[k].step = "resolve" /\ ~trace[k].ok) =>
      /\ Len(results) >= trace[k].call
      /\ results[trace[k].call] = [err |-> TRUE, rule |-> trace[k].rule]
      /\ \A j \in 1..Len(trace) :
           SameRule(trace[j], trace[k]) =>
             trace[j].step \notin {"read", "build", "mkdir", "copy"}
      /\ \A o \in out : ~(o.call = trace[k].call /\ o.rule = trace[k].rule)

\* a rule missed its subtree and its output subfolder does not exist
MissingSubtreeSeen ==
  \E k \in 1..Len(trace) :
    /\ trace[k].step = "resolve" /\ ~trace[k].ok
    /\ rules[trace[k].rule].Name \notin outDirs
    /\ pc = "idle"

\* C8: when tpl.Build fails for a rule, Apply returns an error at that rule,
\* does not create or fill the rule's output subfolder and does not go on
\* to the next rule.
RenderFailureAborts ==
  \A k \in 1..Len(trace) :
    (trace[k].step = "build" /\ ~trace[k].ok) =>
      /\ \A j \in 1..Len(trace) :
           SameRule(trace[j], trace[k]) => trace[j].step \notin {"mkdir", "copy"}
      /\ \A j \in 1..Len(trace) :
           trace[j].call = trace[k].call => trace[j].rule <= trace[k].rule
      /\ Len(results) >= trace[k].call =>
           results[trace[k].call] = [err |-> TRUE, rule |-> trace[k].rule]

\* C9: Apply takes the rules in the order they were added, finishes every
\* step of a rule before the next rule starts, and executes no step of a
\* later rule after a step of a rule failed.
RulesInOrder ==
  \A j, k \in 1..Len(trace) :
    (j < k /\ trace[j].call = trace[k].call) =>
      /\ trace[j].rule <= trace[k].rule
      /\ k = j + 1 => trace[k].rule \in {trace[j].rule, trace[j].rule + 1}
      /\ ~trace[j].ok => trace[k].rule = trace[j].rule

\* C10 (as stated): a failed Apply call leaves nothing it wrote in the
\* output subfolders of the rules before the failing rule.
NoPartialOutput ==
  \A c \in 1..Len(results) :
    results[c].err =>
      \A o \in out : o.call = c => o.rule >= results[c].rule

\* C10 (as amended): when Apply fails at rule k, no step of a rule after k
\* was executed and nothing was written for such a rule, while every
\* artifact copied for the rules before k is still below b.dir.
FailureKeepsEarlierOutput ==
  \A c \in 1..Len(results) :
    results[c].err =>
      /\ \A j \in 1..Len(trace) :
           trace[j].call = c => trace[j].rule <= results[c].rule
      /\ \A o \in out : o.call = c => o.rule <= results[c].rule
      /\ \A j \in 1..Len(trace) :
           (trace[j].call = c /\ trace[j].step = "copy") =>
             \A n \in 1..Len(trace[j].files) :
               \E o \in out : /\ o.dir = rules[trace[j].rule].Name
                              /\ o.path = <<trace[j].files[n]>>

\* Apply failed at its second rule after it copied artifacts for the first
PartialOutputLeft ==
  \E c \in 1..Len(results) :
    /\ results[c] = [err |-> TRUE, rule |-> 2]
    /\ \E o \in out : o.call = c /\ o.rule = 1

\* C14: when the copy loop of a rule returns no error, the output subfolder
\* of the rule holds an entry under the base name of every artifact, every
\* file artifact with the content it has in the staging directory and every
\* file below a directory artifact likewise: a failed copy of any file,
\* nested or not, is an error of Apply.
CopyComplete ==
  LET e == trace[Len(trace)]
  IN (trace # <<>> /\ e.step = "copy" /\ e.ok) =>
       /\ \A n \in 1..Len(e.files) :
            \E o \in out : /\ o.dir = rules[e.rule].Name
                           /\ o.path = <<e.files[n]>>
       /\ \A f \in e.staged :
            \E o \in out : /\ o.dir = rules[e.rule].Name
                           /\ o.path = f.path
                           /\ o.kind = "file"
                           /\ o.bytes = f.bytes

\* C17: two rules whose (identifier, template reference) pairs differ in
\* either component are rendered in different staging directories.
StagingKeyInjective ==
  \A j, k \in 1..Len(trace) :
    ( /\ trace[j].step = "build" /\ trace[k].step = "build"
      /\ <<rules[trace[j].rule].Id, rules[trace[j].rule].Template>>
           # <<rules[trace[k].rule].Id, rules[trace[k].rule].Template>> )
    => trace[j].dir # trace[k].dir

\* C19: a pull is invoked only in a cache directory into which a clone has
\* completed successfully before.
PullOnlyAfterClone ==
  \A k \in 1..Len(trace) :
    trace[k].step = "pull" =>
      \E j \in 1..(k - 1) : /\ trace[j].step = "clone"
                            /\ trace[j].ok
                            /\ trace[j].dir = trace[k].dir

(***************************************************************************)
(* build.go: Apply calls that run concurrently on one Build.  Every call   *)
(* processes b.rules on its own goroutine; what the calls share is the     *)
(* file system below b.tmpDir.  A step is one system call or one git       *)
(* command of provideTemplate, ReadTemplate and Template.Build, and the    *)
(* steps of different calls interleave freely: the code takes no lock.     *)
(***************************************************************************)
Invocations == 1..MaxInvocations

\* variant of AfterMkdirAll for a creation that notices an existing directory
AfterMkdirExclusive(existed, err) ==
  IF err THEN "fail" ELSE IF existed THEN "pull" ELSE "gitclone"

\* provideTemplate: os.MkdirAll returns nil for a directory that exists, so
\* git clone follows whenever it did not fail
AfterMkdirAll(existed, err) == IF err THEN "fail" ELSE "gitclone"

\* the outcomes of a git command in a cache directory: clone refuses a
\* directory that is not empty, pull needs a complete repository, and
\* either may or may not fail while a clone is writing the directory
GitOutcomes(sure, racing) ==
  IF sure THEN {TRUE} ELSE IF racing THEN BOOLEAN ELSE {FALSE}

InitRace ==
  /\ CodecIdle
  /\ FileIdle
  /\ BuildIdle
  /\ rrule \in { r \in Rules : isUrl(r.Template) }
  /\ rpc = [p \in Invocations |-> "stat"]
  /\ seen = [p \in Invocations |-> "unknown"]
  /\ clones = [p \in Invocations |-> 0]
  /\ pulls = [p \in Invocations |-> 0]
  /\ rfiles = [p \in Invocations |-> {}]
  /\ listed = [p \in Invocations |-> {}]
  /\ rcache \in
       { [exists |-> FALSE, content |-> "empty", cloning |-> {},
          overlap |-> FALSE],
         [exists |-> TRUE, content |-> "repo", cloning |-> {},
          overlap |-> FALSE] }
  /\ rstaging \in
       { [exists |-> FALSE, files |-> {}],
         [exists |-> TRUE, files |-> {[of |-> <<NameX>>, by |-> 0]}] }

\* os.Stat(dstDir)
Stat(p) ==
  /\ rpc[p] = "stat"
  /\ seen' = [seen EXCEPT ![p] = IF rcache.exists THEN "present" ELSE "absent"]
  /\ rpc' = [rpc EXCEPT ![p] = AfterStat(rcache.exists)]
  /\ UNCHANGED <<codecVars, fileVars, buildVars, rrule, clones, pulls, rfiles,
                 listed, rcache, rstaging>>

\* os.MkdirAll(dstDir, os.ModePerm)
MkdirAll(p) ==
  /\ rpc[p] = "clone"
  /\ \E err \in BOOLEAN :
       /\ rcache' = IF err THEN rcache ELSE [rcache EXCEPT !.exists = TRUE]
       /\ rpc' = [rpc EXCEPT ![p] = AfterMkdirAll(rcache.exists, err)]
  /\ UNCHANGED <<codecVars, fileVars, buildVars, rrule, seen, clones, pulls,
                 rfiles, listed, rstaging>>

\* b.exec(dstDir, "git", "clone", urlOrDir, "."): the command starts
GitClone(p) ==
  /\ rpc[p] = "gitclone"
  /\ clones' = [clones EXCEPT ![p] = @ + 1]
  /\ \E started \in GitOutcomes(rcache.content = "empty" /\ rcache.cloning = {},
                                rcache.content = "empty") :
       IF started
       THEN /\ rcache' = [rcache EXCEPT !.cloning = @ \cup {p},
                                        !.overlap = @ \/ rcache.cloning # {}]
            /\ rpc' = [rpc EXCEPT ![p] = "cloning"]
       ELSE /\ rcache' = rcache
            /\ rpc' = [rpc EXCEPT ![p] = AfterProvide(TRUE)]
  /\ UNCHANGED <<codecVars, fileVars, buildVars, rrule, seen, pulls, rfiles,
                 listed, rstaging>>

\* b.exec(dstDir, "git", "clone", urlOrDir, "."): the command exits
CloneExit(p) ==
  /\ rpc[p] = "cloning"
  /\ \E ok \in GitOutcomes(~rcache.overlap, TRUE) :
       /\ rcache' = [rcache EXCEPT
                       !.cloning = @ \ {p},
                       !.content = IF ok THEN "repo"
                                   ELSE IF @ = "repo" THEN "repo" ELSE "partial"]
       /\ rpc' = [rpc EXCEPT ![p] = AfterProvide(~ok)]
  /\ UNCHANGED <<codecVars, fileVars, buildVars, rrule, seen, clones, pulls,
                 rfiles, listed, rstaging>>

\* b.exec(dstDir, "git", "pull")
GitPull(p) ==
  /\ rpc[p] = "pull"
  /\ pulls' = [pulls EXCEPT ![p] = @ + 1]
  /\ \E ok \in GitOutcomes(rcache.content = "repo" /\ rcache.cloning = {},
                           rcache.cloning # {}) :
       rpc' = [rpc EXCEPT ![p] = AfterProvide(~ok)]
  /\ UNCHANGED <<codecVars, fileVars, buildVars, rrule, seen, clones, rfiles,
                 listed, rcache, rstaging>>

\* b.workspace.ById(r.Id)
Lookup(p) ==
  /\ rpc[p] = "resolve"
  /\ rpc' = [rpc EXCEPT ![p] = AfterResolve(ById(BuildWorkspace, rrule.Id))]
  /\ UNCHANGED <<codecVars, fileVars, buildVars, rrule, seen, clones, pulls,
                 rfiles, listed, rcache, rstaging>>

\* ReadTemplate(template, transformTmpDir): the walk of the cache directory
ReadFiles(p) ==
  /\ rpc[p] = "read"
  /\ rfiles' = [rfiles EXCEPT ![p] = IF rcache.content = "repo"
                                     THEN RemoteTree(rrule.Template) ELSE {}]
  /\ rpc' = [rpc EXCEPT ![p] = AfterRead(FALSE)]
  /\ UNCHANGED <<codecVars, fileVars, buildVars, rrule, seen, clones, pulls,
                 listed, rcache, rstaging>>

\* Template.Build: os.RemoveAll(dstDir)
RemoveAll(p) ==
  /\ rpc[p] = "build"
  /\ rstaging' = [exists |-> FALSE, files |-> {}]
  /\ rpc' = [rpc EXCEPT ![p] = "mkstaging"]
  /\ UNCHANGED <<codecVars, fileVars, buildVars, rrule, seen, clones, pulls,
                 rfiles, listed, rcache>>

\* Template.Build: os.MkdirAll(dstDir, os.ModePerm)
MkStaging(p) ==
  /\ rpc[p] = "mkstaging"
  /\ rstaging' = [rstaging EXCEPT !.exists = TRUE]
  /\ rpc' = [rpc EXCEPT ![p] = "write"]
  /\ UNCHANGED <<codecVars, fileVars, buildVars, rrule, seen, clones, pulls,
                 rfiles, listed, rcache>>

\* Template.Build: file.Apply(dstDir, model) for every file of the project;
\* File.Apply creates the directory of the file again if it is gone
WriteFiles(p) ==
  /\ rpc[p] = "write"
  /\ rstaging' =
       [exists |-> rstaging.exists \/ rfiles[p] # {},
        files |-> { f \in rstaging.files : f.of \notin rfiles[p] }
                    \cup { [of |-> f, by |-> p] : f \in rfiles[p] }]
  /\ rpc' = [rpc EXCEPT ![p] = "list"]
  /\ UNCHANGED <<codecVars, fileVars, buildVars, rrule, seen, clones, pulls,
                 rfiles, listed, rcache>>

\* Template.Build: listRootFiles(dstDir); Apply does not test its error
ListRoot(p) ==
  /\ rpc[p] = "list"
  /\ listed' = [listed EXCEPT ![p] = IF rstaging.exists
                                     THEN { f.of : f \in rstaging.files }
                                     ELSE {}]
  /\ rpc' = [rpc EXCEPT ![p] = "done"]
  /\ UNCHANGED <<codecVars, fileVars, buildVars, rrule, seen, clones, pulls,
                 rfiles, rcache, rstaging>>

NextRace ==
  \E p \in Invocations :
    \/ Stat(p)
    \/ MkdirAll(p)
    \/ GitClone(p)
    \/ CloneExit(p)
    \/ GitPull(p)
    \/ Lookup(p)
    \/ ReadFiles(p)
    \/ RemoveAll(p)
    \/ MkStaging(p)
    \/ WriteFiles(p)
    \/ ListRoot(p)

SpecRace == InitRace /\ [][NextRace]_vars

(***************************************************************************)
(* Properties of concurrent Apply calls                                    *)
(***************************************************************************)
\* the steps of an Apply call that follow a started git clone
AfterCloneStarted ==
  {"cloning", "resolve", "read", "build", "mkstaging", "write", "list", "done"}

\* C15: the os.Stat of the cache directory and its creation are separate
\* steps, and nothing ties the second to the first: an Apply call that found
\* the directory absent invokes git clone in it whatever another call did to
\* the directory in between, and only a call that found it present invokes
\* git pull.  Two concurrent calls can therefore both find the directory
\* absent and both invoke a clone into it, and both can be between the
\* RemoveAll and the listRootFiles of the same staging directory.
CheckThenCreateNotAtomic ==
  \A p \in Invocations :
    /\ clones[p] > 0 => seen[p] = "absent"
    /\ pulls[p] > 0 => seen[p] = "present"
    /\ (seen[p] = "absent" /\ rpc[p] \in AfterCloneStarted) => clones[p] = 1
    /\ (seen[p] = "absent" /\ rpc[p] \in {"gitclone", "cloning"}) =>
         rcache.exists

\* two Apply calls found the cache directory absent, both cloned into it
\* while the other did, and both have cleared the staging directory and are
\* about to write their files into it
BothCloneBothStage ==
  \E p, q \in Invocations :
    /\ p # q
    /\ seen[p] = "absent" /\ seen[q] = "absent"
    /\ clones[p] = 1 /\ clones[q] = 1
    /\ rcache.overlap
    /\ rpc[p] = "write" /\ rpc[q] = "write"

====
